---- MODULE Spec2Model ----
(***************************************************************************)
(* Model of EnglishLearning.cloze_deletion (src/english_learning.py).      *)
(*                                                                         *)
(* A string is a sequence of characters; a character is a one-element      *)
(* token such as "c" or "_".  Offsets are Python offsets (0-based), so the *)
(* character at offset p of s is s[p + 1] and the slice s[a:b] is          *)
(* SubSeq(s, a + 1, b).                                                    *)
(*                                                                         *)
(* The module holds several specifications over the same variables: Spec   *)
(* and SpecPunct follow one call of cloze_deletion step by step, SpecCalls *)
(* interleaves the calls of several callers, and the Spec... of the web    *)
(* application (src/app.py, src/english_learning_service.py) take one      *)
(* request handler per step.  A specification leaves the variables of the  *)
(* others at rest.                                                         *)
(***************************************************************************)
EXTENDS Integers, Sequences, FiniteSets, TLC

VARIABLES text, words, pc, target_set, ans_list, replace_span, idx, scanpos,
          new_text_parts, pos, k, result,
          calls, files, session, last

\* The locals of the one call of cloze_deletion that is followed step by step.
clozeVars == <<text, words, pc, target_set, ans_list, replace_span, idx,
               scanpos, new_text_parts, pos, k, result>>

\* Concurrent callers; the data files, the sessions and the last response of
\* the web application.
others == <<calls, files, session, last>>

vars == <<text, words, pc, target_set, ans_list, replace_span, idx, scanpos,
          new_text_parts, pos, k, result, calls, files, session, last>>

(***************************************************************************)
(* Characters.                                                             *)
(***************************************************************************)
LowerLetters == {"a", "c", "e", "g", "o", "r", "t", "y"}

UpperLetters == {"A", "C", "T"}

Digits == {"0", "1", "2", "3", "4", "5", "6", "7", "8", "9"}

\* A letter outside A-Z / a-z (e-acute): alphanumeric for Python's str regex.
NonAsciiLetters == {"U+00E9"}

Chars == LowerLetters \cup UpperLetters \cup Digits \cup NonAsciiLetters
           \cup {"_", "[", "]", " ", "'", "-"}

\* The character class [a-zA-Z] of the pattern.
IsAsciiLetter(c) == c \in LowerLetters \cup UpperLetters

\* \w of a Python str pattern: Unicode alphanumerics and the underscore.
IsWordChar_AsciiLetterOnly(c) == IsAsciiLetter(c)

IsWordChar_WithPunctuation(c) ==
    IsAsciiLetter(c) \/ c \in Digits \/ c \in NonAsciiLetters
        \/ c \in {"_", "'", "-"}

IsWordChar(c) ==
    IsAsciiLetter(c) \/ c \in Digits \/ c \in NonAsciiLetters \/ c = "_"

\* str.lower() on one character.
LowerChar(c) ==
    CASE c = "A" -> "a"
      [] c = "C" -> "c"
      [] c = "T" -> "t"
      [] OTHER -> c

\* str.lower().
LowerStr(s) == [i \in 1..Len(s) |-> LowerChar(s[i])]

Range(s) == {s[i] : i \in 1..Len(s)}

Max(S) == CHOOSE x \in S : \A y \in S : y <= x

(***************************************************************************)
(* Inputs: a text is a concatenation of at most MaxPieces pieces, a word   *)
(* list is one of WordLists.                                               *)
(***************************************************************************)
MaxPieces == 3

Pieces ==
    { <<"c", "a", "t">>,
      <<"C", "a", "t">>,
      <<"c", "a", "t", "e", "g", "o", "r", "y">>,
      <<" ">>,
      <<"'">>,
      <<"2">>,
      <<"_">>,
      <<"U+00E9">>,
      <<"_", "_", "_", "[", "1", "]", "_", "_", "_">>,
      <<"_", "_", "_", "[", "2", "]">> }

RECURSIVE Join(_)
\* "".join(parts)
Join(parts) ==
    IF parts = <<>> THEN <<>> ELSE Head(parts) \o Join(Tail(parts))

Texts ==
    UNION { { Join(f) : f \in [1..n -> Pieces] } : n \in 0..MaxPieces }

WordLists ==
    { <<>>,
      << <<"c", "a", "t">> >>,
      << <<"C", "A", "T">> >>,
      << <<"c", "a", "t">>, <<"c", "a", "t", "e", "g", "o", "r", "y">> >>,
      << <<"c", "a", "t", "e", "g", "o", "r", "y">>, <<"C", "a", "t">> >>,
      << <<"c", "a", "t">>, <<"C", "A", "T">>, <<"c", "a", "t">> >>,
      << <<>>, <<"c", "a">> >> }

(***************************************************************************)
(* The pattern \b[a-zA-Z]+\b and finditer.                                 *)
(***************************************************************************)
\* Whether the character at offset p exists and is a word character.
WordAt(s, p) == p >= 0 /\ p < Len(s) /\ IsWordChar(s[p + 1])

\* \b at offset p: exactly one of the two neighbours is a word character.
Boundary(s, p) == WordAt(s, p - 1) # WordAt(s, p)

\* Length of the run of [a-zA-Z] that starts at offset p.
RunLen(s, p) ==
    LET stops == {q \in p..(Len(s) - 1) : ~IsAsciiLetter(s[q + 1])}
    IN  IF stops = {} THEN Len(s) - p
        ELSE (CHOOSE q \in stops : \A r \in stops : q <= r) - p

\* Where a match of the pattern that starts at offset p ends; -1 if the
\* pattern does not match at p.  [a-zA-Z]+ is greedy and backtracks.
MatchEnd_Star(s, p) == p + RunLen(s, p)

MatchEnd_Substring(s, p) ==
    LET lens == {Len(w) : w \in {v \in target_set :
                     /\ v # <<>>
                     /\ p + Len(v) <= Len(s)
                     /\ LowerStr(SubSeq(s, p + 1, p + Len(v))) = v}}
    IN  IF lens = {} THEN -1 ELSE p + Max(lens)

MatchEnd(s, p) ==
    LET run == RunLen(s, p)
        ends == {n \in 1..run : Boundary(s, p + n)}
    IN  IF Boundary(s, p) /\ ends # {} THEN p + Max(ends) ELSE -1

NoMatch == [start |-> -1, end |-> -1]

RECURSIVE NextMatch(_, _)
\* The next match object of finditer when the search resumes at offset from.
NextMatch(s, from) ==
    IF from > Len(s) THEN NoMatch
    ELSE LET e == MatchEnd(s, from)
         IN  IF e # -1 THEN [start |-> from, end |-> e]
             ELSE NextMatch(s, from + 1)

\* Where finditer resumes after match m (an empty match moves one on).
ScanResume_Stuck(m) == m.start

ScanResume(m) == IF m.end = m.start THEN m.end + 1 ELSE m.end

\* match_word.group(0)
Group0(s, m) == SubSeq(s, m.start + 1, m.end)

(***************************************************************************)
(* The pieces of cloze_deletion.                                           *)
(***************************************************************************)
\* target_set = {w.lower() for w in words}
TargetSet_NoLower(ws) == Range(ws)

TargetSet(ws) == {LowerStr(w) : w \in Range(ws)}

\* The test of line 32 (negated): the token is kept as a blank.
InTarget_Always(word, ts) == TRUE

InTarget(word, ts) == LowerStr(word) \in ts

\* {'idx': idx, 'word': word}
AnsEntry(i, word) == [idx |-> i, word |-> word]

\* idx = 1
FirstIdx == 1

\* idx += 1
NextIdx_Same(i) == i

NextIdx_Skip(i) == i + 2

NextIdx(i) == i + 1

RECURSIVE Str(_)
\* str(i) of a non-negative integer, in decimal.
Str(i) ==
    LET d == <<"0", "1", "2", "3", "4", "5", "6", "7", "8", "9">>[(i % 10) + 1]
    IN  IF i < 10 THEN <<d>> ELSE Str(i \div 10) \o <<d>>

\* f"___[{i}]___"
Placeholder(i) == <<"_", "_", "_", "[">> \o Str(i) \o <<"]", "_", "_", "_">>

\* Lines 42-43: the text before the span, when there is any.
Before_Whole(s, from, start) == <<SubSeq(s, 1, start)>>

Before(s, from, start) ==
    IF from < start THEN <<SubSeq(s, from + 1, start)>> ELSE <<>>

\* pos = end
NextPos_Start(start, end) == start

NextPos(start, end) == end

\* Lines 50-51: the text after the last span, when there is any.
Rest(s, from) ==
    IF from < Len(s) THEN <<SubSeq(s, from + 1, Len(s))>> ELSE <<>>

NoResult == [question |-> <<>>, ans |-> <<>>]

\* No concurrent caller, no file, no session, no response.
OthersAtRest ==
    /\ calls = <<>>
    /\ files = <<>>
    /\ session = <<>>
    /\ last = <<>>

(***************************************************************************)
(* The call, step by step.                                                 *)
(***************************************************************************)
Init ==
    /\ text \in Texts
    /\ words \in WordLists
    /\ pc = "call"
    /\ target_set = {}
    /\ ans_list = <<>>
    /\ replace_span = <<>>
    /\ idx = 1
    /\ scanpos = 0
    /\ new_text_parts = <<>>
    /\ pos = 0
    /\ k = 0
    /\ result = NoResult
    /\ OthersAtRest

\* Lines 21-26.
Begin ==
    /\ pc = "call"
    /\ target_set' = TargetSet(words)
    /\ ans_list' = <<>>
    /\ replace_span' = <<>>
    /\ idx' = FirstIdx
    /\ scanpos' = 0
    /\ pc' = "scan"
    /\ UNCHANGED <<text, words, new_text_parts, pos, k, result>>
    /\ UNCHANGED others

\* Lines 28-33: a token that is not a target word is skipped.
ScanSkip ==
    /\ pc = "scan"
    /\ LET m == NextMatch(text, scanpos)
       IN  /\ m # NoMatch
           /\ ~InTarget(Group0(text, m), target_set)
           /\ scanpos' = ScanResume(m)
    /\ UNCHANGED <<text, words, pc, target_set, ans_list, replace_span, idx,
                   new_text_parts, pos, k, result>>
    /\ UNCHANGED others

\* Lines 28-36: a token that is a target word is recorded.
ScanHit ==
    /\ pc = "scan"
    /\ LET m == NextMatch(text, scanpos)
           word == Group0(text, m)
       IN  /\ m # NoMatch
           /\ InTarget(word, target_set)
           /\ ans_list' = Append(ans_list, AnsEntry(idx, word))
           /\ replace_span' =
                  Append(replace_span, [start |-> m.start, end |-> m.end, i |-> idx])
           /\ idx' = NextIdx(idx)
           /\ scanpos' = ScanResume(m)
    /\ UNCHANGED <<text, words, pc, target_set, new_text_parts, pos, k, result>>
    /\ UNCHANGED others

\* Line 28 exhausted, lines 38-39.
ScanEnd ==
    /\ pc = "scan"
    /\ NextMatch(text, scanpos) = NoMatch
    /\ new_text_parts' = <<>>
    /\ pos' = 0
    /\ k' = 1
    /\ pc' = "build"
    /\ UNCHANGED <<text, words, target_set, ans_list, replace_span, idx,
                   scanpos, result>>
    /\ UNCHANGED others

\* Lines 40-47: one iteration over replace_span.
BuildStep ==
    /\ pc = "build"
    /\ k <= Len(replace_span)
    /\ LET span == replace_span[k]
       IN  /\ new_text_parts' =
                  new_text_parts \o Before(text, pos, span.start)
                                 \o <<Placeholder(span.i)>>
           /\ pos' = NextPos(span.start, span.end)
    /\ k' = k + 1
    /\ UNCHANGED <<text, words, pc, target_set, ans_list, replace_span, idx,
                   scanpos, result>>
    /\ UNCHANGED others

\* Lines 50-58.
Finish ==
    /\ pc = "build"
    /\ k > Len(replace_span)
    /\ new_text_parts' = new_text_parts \o Rest(text, pos)
    /\ result' = [question |-> Join(new_text_parts'), ans |-> ans_list]
    /\ pc' = "done"
    /\ UNCHANGED <<text, words, target_set, ans_list, replace_span, idx,
                   scanpos, pos, k>>
    /\ UNCHANGED others

Next == Begin \/ ScanSkip \/ ScanHit \/ ScanEnd \/ BuildStep \/ Finish

Spec == Init /\ [][Next]_vars

(***************************************************************************)
(* Reading a question back: the placeholder pattern ___\[(\d+)\]___ with   *)
(* which the play and submit pages find the blanks (re.sub).               *)
(***************************************************************************)
\* Number of decimal digits that start at offset p.
DigitRun(s, p) ==
    LET stops == {q \in p..(Len(s) - 1) : s[q + 1] \notin Digits}
    IN  IF stops = {} THEN Len(s) - p
        ELSE (CHOOSE q \in stops : \A r \in stops : q <= r) - p

\* Whether string lit occurs in s at offset p.
OccursAt(s, p, lit) ==
    /\ p >= 0
    /\ p + Len(lit) <= Len(s)
    /\ SubSeq(s, p + 1, p + Len(lit)) = lit

\* Where a placeholder that starts at offset p ends; -1 if none starts there.
PlaceholderEnd(s, p) ==
    LET n == DigitRun(s, p + 4)
    IN  IF /\ OccursAt(s, p, <<"_", "_", "_", "[">>)
           /\ n >= 1
           /\ OccursAt(s, p + 4 + n, <<"]", "_", "_", "_">>)
        THEN p + 4 + n + 4
        ELSE -1

RECURSIVE ParseInt(_)
\* int(digits)
ParseInt(ds) ==
    IF ds = <<>> THEN 0
    ELSE 10 * ParseInt(SubSeq(ds, 1, Len(ds) - 1))
           + (CHOOSE v \in 0..9 : Str(v) = <<ds[Len(ds)]>>)

\* match.group(1) of the placeholder that starts at offset p, as a number.
PlaceholderIdx(s, p) == ParseInt(SubSeq(s, p + 5, PlaceholderEnd(s, p) - 4))

RECURSIVE QuestionIdxs(_, _)
\* The idx values of the placeholders of s from offset p on, in order.
QuestionIdxs(s, p) ==
    IF p >= Len(s) THEN <<>>
    ELSE IF PlaceholderEnd(s, p) # -1
         THEN <<PlaceholderIdx(s, p)>> \o QuestionIdxs(s, PlaceholderEnd(s, p))
         ELSE QuestionIdxs(s, p + 1)

RECURSIVE Substitute(_, _, _)
\* s from offset p on, each placeholder replaced by the word of the entry of
\* ans with the same idx (and left as it is when ans has no such entry).
Substitute(s, p, ans) ==
    IF p >= Len(s) THEN <<>>
    ELSE IF PlaceholderEnd(s, p) # -1
         THEN LET e == PlaceholderEnd(s, p)
                  i == PlaceholderIdx(s, p)
                  hits == {j \in 1..Len(ans) : ans[j].idx = i}
              IN  (IF hits = {} THEN SubSeq(s, p + 1, e)
                   ELSE ans[CHOOSE j \in hits : TRUE].word)
                  \o Substitute(s, e, ans)
         ELSE <<s[p + 1]>> \o Substitute(s, p + 1, ans)

\* Whether s holds ___[digits] somewhere: the head of a placeholder.
HasPlaceholderHead(s) ==
    \E p \in 0..Len(s) :
        /\ OccursAt(s, p, <<"_", "_", "_", "[">>)
        /\ DigitRun(s, p + 4) >= 1
        /\ OccursAt(s, p + 4 + DigitRun(s, p + 4), <<"]">>)

NoDuplicates(q) == \A i, j \in 1..Len(q) : q[i] = q[j] => i = j

AnsIdxs(ans) == [j \in 1..Len(ans) |-> ans[j].idx]

Done == pc = "done"

(***************************************************************************)
(* C1.  Round trip.                                                        *)
(***************************************************************************)
\* C1 as stated: for every text and word list, putting the word of the ans
\* entry with the same idx back in place of each placeholder of the question
\* gives the text again, placeholder-shaped literals in the text included.
C1_RoundTripEveryText ==
    Done => Substitute(result.question, 0, result.ans) = text

\* C1 amended: the round trip holds for every word list and every text that
\* holds no placeholder head ___[digits].
C1_RoundTrip ==
    (Done /\ ~HasPlaceholderHead(text))
        => Substitute(result.question, 0, result.ans) = text

C1_Witness ==
    /\ Done
    /\ ~HasPlaceholderHead(text)
    /\ Len(result.ans) = 2
    /\ result.ans[1].word # result.ans[2].word
    /\ result.question # text
    /\ Substitute(result.question, 0, result.ans) = text

(***************************************************************************)
(* C2.  Bijection between placeholders and answers.                        *)
(***************************************************************************)
Bijection ==
    /\ NoDuplicates(QuestionIdxs(result.question, 0))
    /\ NoDuplicates(AnsIdxs(result.ans))
    /\ Range(QuestionIdxs(result.question, 0)) = Range(AnsIdxs(result.ans))

\* C2 as stated: for every text and word list the idx values of the
\* placeholders of the question are exactly the idx values of ans, and no idx
\* occurs twice on either side.
C2_BijectionEveryText == Done => Bijection

\* C2 amended: the same, for every text that holds no placeholder head
\* ___[digits].
C2_Bijection == (Done /\ ~HasPlaceholderHead(text)) => Bijection

C2_Witness ==
    /\ Done
    /\ ~HasPlaceholderHead(text)
    /\ QuestionIdxs(result.question, 0) = <<1, 2>>
    /\ AnsIdxs(result.ans) = <<1, 2>>

(***************************************************************************)
(* Tokens of a text, stated on the text alone.  A span is <<a, b>>: the    *)
(* slice text[a:b].                                                        *)
(***************************************************************************)
Slice(s, span) == SubSeq(s, span[1] + 1, span[2])

AllLetters(s, a, b) ==
    \A q \in (a + 1)..b : s[q] \in LowerLetters \cup UpperLetters

\* The character next to the span on the left / right, if any, is not in J.
Bounded(s, a, b, J) ==
    /\ a = 0 \/ s[a] \notin J
    /\ b = Len(s) \/ s[b + 1] \notin J

\* Non-empty runs of ASCII letters with no character of J on either side.
RunsBoundedBy(s, J) ==
    { span \in (0..Len(s)) \X (0..Len(s)) :
        /\ span[1] < span[2]
        /\ AllLetters(s, span[1], span[2])
        /\ Bounded(s, span[1], span[2], J) }

\* Maximal runs of ASCII letters: bounded by any non-letter.
LetterRuns(s) == RunsBoundedBy(s, LowerLetters \cup UpperLetters)

\* Runs of ASCII letters with no letter, digit, underscore or non-ASCII
\* letter on either side.
WordRuns(s) ==
    RunsBoundedBy(s, LowerLetters \cup UpperLetters \cup Digits
                        \cup NonAsciiLetters \cup {"_"})

LoweredWords == {LowerStr(w) : w \in Range(words)}

\* The spans the call replaced.
Replaced == {<<replace_span[j].start, replace_span[j].end>> :
                j \in 1..Len(replace_span)}

\* The j-th span of set S by increasing start offset.
Nth(S, j) ==
    CHOOSE span \in S :
        Cardinality({o \in S : o[1] < span[1]}) = j - 1

(***************************************************************************)
(* C3.  What a token is.                                                   *)
(***************************************************************************)
\* C3 as stated: every maximal run of ASCII letters bounded by any non-letter
\* character (a digit, an underscore, a non-ASCII letter included) or by the
\* ends of the text is a token, and a token is replaced if and only if its
\* lower-case form is in the lower-cased word set.
C3_TokensAreLetterRuns ==
    Done => Replaced = {span \in LetterRuns(text) :
                            LowerStr(Slice(text, span)) \in LoweredWords}

\* C3 amended: the tokens are the runs of ASCII letters that have no letter,
\* digit, underscore or non-ASCII letter next to them on either side; a token
\* is replaced if and only if its lower-case form is in the lower-cased word
\* set, and a run next to a digit, underscore or non-ASCII letter is not.
C3_TokensAreWordRuns ==
    Done => Replaced = {span \in WordRuns(text) :
                            LowerStr(Slice(text, span)) \in LoweredWords}

C3_Witness ==
    /\ Done
    /\ Replaced # {}
    /\ \E span \in LetterRuns(text) \ WordRuns(text) :
           /\ LowerStr(Slice(text, span)) \in LoweredWords
           /\ span \notin Replaced
           /\ Slice(result.question, <<span[1], span[2]>>) = Slice(text, span)

(***************************************************************************)
(* C4.  Whole words only.                                                  *)
(***************************************************************************)
\* An occurrence of a target word inside a longer run of ASCII letters.
InsideLongerRun(s, span) ==
    /\ span[1] < span[2]
    /\ LowerStr(Slice(s, span)) \in LoweredWords
    /\ \/ span[1] > 0 /\ IsAsciiLetter(s[span[1]])
       \/ span[2] < Len(s) /\ IsAsciiLetter(s[span[2] + 1])

OccurrencesInsideLongerRuns(s) ==
    {span \in (0..Len(s)) \X (0..Len(s)) : InsideLongerRun(s, span)}

\* C4: an occurrence of a target word that is a proper substring of a longer
\* run of ASCII letters is never a replaced span and never the source of an
\* ans entry: every ans entry is a whole run of letters of the text.
C4_WholeWordOnly ==
    Done =>
        /\ Replaced \cap OccurrencesInsideLongerRuns(text) = {}
        /\ Len(result.ans) = Len(replace_span)
        /\ \A j \in 1..Len(result.ans) :
               /\ <<replace_span[j].start, replace_span[j].end>> \in LetterRuns(text)
               /\ result.ans[j].word =
                      SubSeq(text, replace_span[j].start + 1, replace_span[j].end)

C4_Witness ==
    /\ Done
    /\ words = << <<"c", "a", "t">> >>
    /\ text = <<"c", "a", "t", "e", "g", "o", "r", "y", " ", "c", "a", "t">>
    /\ result.question = <<"c", "a", "t", "e", "g", "o", "r", "y", " ">> \o Placeholder(1)
    /\ result.ans = <<[idx |-> 1, word |-> <<"c", "a", "t">>]>>

(***************************************************************************)
(* C5.  Numbering.                                                         *)
(***************************************************************************)
\* The matches of the text, which depend on the set of lower-cased words only.
Matches ==
    {span \in WordRuns(text) : LowerStr(Slice(text, span)) \in LoweredWords}

\* C5: the idx values of ans are 1, 2, ..., n in list order and the j-th entry
\* is the j-th match by increasing start offset, whichever word matched,
\* however often, and in whatever order the word list gives the words.
C5_Numbering ==
    Done =>
        /\ Len(result.ans) = Cardinality(Matches)
        /\ \A j \in 1..Len(result.ans) :
               /\ result.ans[j].idx = j
               /\ result.ans[j].word = Slice(text, Nth(Matches, j))

C5_Witness ==
    /\ Done
    /\ words = << <<"c", "a", "t", "e", "g", "o", "r", "y">>, <<"C", "a", "t">> >>
    /\ result.ans = << [idx |-> 1, word |-> <<"c", "a", "t">>],
                       [idx |-> 2, word |-> <<"c", "a", "t", "e", "g", "o", "r", "y">>] >>

(***************************************************************************)
(* C6.  Case.                                                              *)
(***************************************************************************)
\* C6: a token is matched exactly when its lower-case form is the lower-case
\* form of some entry of the word list, whatever the case of that entry, and
\* the word of an ans entry is the token as the text spells it.
C6_CaseInsensitiveCasePreserving ==
    Done =>
        /\ \A span \in WordRuns(text) :
               span \in Replaced <=>
                   \E j \in 1..Len(words) :
                       LowerStr(Slice(text, span)) = LowerStr(words[j])
        /\ \A j \in 1..Len(result.ans) :
               result.ans[j].word =
                   SubSeq(text, replace_span[j].start + 1, replace_span[j].end)

C6_Witness ==
    /\ Done
    /\ words = << <<"C", "A", "T">> >>
    /\ \E j \in 1..Len(result.ans) : result.ans[j].word = <<"C", "a", "t">>
    /\ \E j \in 1..Len(result.ans) : result.ans[j].word = <<"c", "a", "t">>

(***************************************************************************)
(* C7.  Text outside the replaced spans.                                   *)
(***************************************************************************)
RECURSIVE Without(_, _, _)
\* s with the characters at the offsets of set cut removed, from offset p on.
Without(s, cut, p) ==
    IF p >= Len(s) THEN <<>>
    ELSE (IF p \in cut THEN <<>> ELSE <<s[p + 1]>>) \o Without(s, cut, p + 1)

\* The offsets of the text that lie in a replaced span.
MatchedOffsets ==
    UNION { replace_span[j].start..(replace_span[j].end - 1) :
                j \in 1..Len(replace_span) }

\* Length of the placeholder inserted for the j-th span.
InsertedLen(j) == 8 + Len(Str(replace_span[j].i))

RECURSIVE Shift(_)
\* How much longer the question is than the text up to the end of span j.
Shift(j) ==
    IF j = 0 THEN 0
    ELSE Shift(j - 1) + InsertedLen(j)
           - (replace_span[j].end - replace_span[j].start)

\* Where in the question the placeholder inserted for the j-th span starts.
InsertedAt(j) == replace_span[j].start + Shift(j - 1)

InsertedOffsets ==
    UNION { InsertedAt(j)..(InsertedAt(j) + InsertedLen(j) - 1) :
                j \in 1..Len(replace_span) }

\* C7: each inserted placeholder stands where its span stood, and the question
\* without the inserted placeholders is the text without the matched spans.
C7_OutsideSpansPreserved ==
    Done =>
        /\ \A j \in 1..Len(replace_span) :
               PlaceholderEnd(result.question, InsertedAt(j))
                   = InsertedAt(j) + InsertedLen(j)
        /\ Without(result.question, InsertedOffsets, 0)
               = Without(text, MatchedOffsets, 0)

C7_Witness ==
    /\ Done
    /\ Len(replace_span) = 1
    /\ replace_span[1].start > 0
    /\ replace_span[1].end < Len(text)
    /\ Without(result.question, InsertedOffsets, 0)
           = <<text[1], text[Len(text)]>>

(***************************************************************************)
(* C8, C9.  Empty inputs.                                                  *)
(***************************************************************************)
\* C8: with an empty word list the question is the text and ans is empty.
C8_EmptyWordList ==
    (Done /\ words = <<>>) => (result.question = text /\ result.ans = <<>>)

C8_Witness ==
    /\ Done
    /\ words = <<>>
    /\ WordRuns(text) # {}
    /\ result = [question |-> text, ans |-> <<>>]

\* C9: with the empty text the question is the empty string and ans is empty.
C9_EmptyText ==
    (Done /\ text = <<>>) => (result.question = <<>> /\ result.ans = <<>>)

C9_Witness ==
    /\ Done
    /\ text = <<>>
    /\ <<>> \in Range(words)
    /\ result = [question |-> <<>>, ans |-> <<>>]

(***************************************************************************)
(* C10.  Totality.                                                         *)
(***************************************************************************)
IsString(s) == \A i \in 1..Len(s) : s[i] \in Chars

\* A result: a question string and a list of {idx, word} entries.
IsResult(r) ==
    /\ IsString(r.question)
    /\ \A j \in 1..Len(r.ans) :
           /\ r.ans[j].idx \in Nat
           /\ IsString(r.ans[j].word)

\* An upper bound on the steps the call still has to take.
Remaining ==
    LET m == Len(text) + 2
    IN  CASE pc = "call" -> 3 * m + 1
          [] pc = "scan" -> 2 * m + (m - scanpos)
          [] pc = "build" -> m + (Len(replace_span) + 1 - k)
          [] OTHER -> 0

\* The guard of some step holds.
CanStep ==
    \/ pc = "call"
    \/ /\ pc = "scan"
       /\ LET m == NextMatch(text, scanpos)
          IN  \/ m = NoMatch
              \/ m.end > m.start /\ m.end <= Len(text)
    \/ /\ pc = "build"
       /\ k >= 1

\* C10: every call, whatever the text and the word list, comes to its return
\* statement and returns a question string and an ans list: before the return
\* there is a next step to take, every step brings the return nearer, and
\* what is returned is a result.
C10_Total ==
    /\ [](~Done => (Remaining > 0 /\ CanStep))
    /\ [][Remaining' < Remaining]_vars
    /\ [](Done => (Remaining = 0 /\ IsResult(result)))

\* A text with a non-ASCII letter and a match followed by one non-letter.
C10_Witness ==
    /\ Done
    /\ IsResult(result)
    /\ \E p \in 1..Len(text) : text[p] \in NonAsciiLetters
    /\ Len(replace_span) = 1
    /\ replace_span[1].end + 2 = Len(text)
    /\ result.question # text

(***************************************************************************)
(* cloze_deletion as a function of its locals: a frame holds the locals of *)
(* one call, and a step of the call is a function from frame to frame.     *)
(***************************************************************************)
\* The locals when the call is made.
NewFrame(t, ws) ==
    [text |-> t, words |-> ws, pc |-> "call", target_set |-> {},
     ans_list |-> <<>>, replace_span |-> <<>>, idx |-> 1, scanpos |-> 0,
     new_text_parts |-> <<>>, pos |-> 0, k |-> 0, result |-> NoResult]

\* Lines 21-26.
FrameBegin_KeepIdx(f) ==
    [f EXCEPT !.target_set = TargetSet(f.words),
              !.ans_list = <<>>,
              !.replace_span = <<>>,
              !.scanpos = 0,
              !.pc = "scan"]

FrameBegin(f) ==
    [f EXCEPT !.target_set = TargetSet(f.words),
              !.ans_list = <<>>,
              !.replace_span = <<>>,
              !.idx = FirstIdx,
              !.scanpos = 0,
              !.pc = "scan"]

\* Lines 28-39: one iteration of the loop over finditer, or its end.
FrameScan(f) ==
    LET m == NextMatch(f.text, f.scanpos)
        word == Group0(f.text, m)
    IN  IF m = NoMatch
        THEN [f EXCEPT !.new_text_parts = <<>>, !.pos = 0, !.k = 1,
                       !.pc = "build"]
        ELSE IF ~InTarget(word, f.target_set)
        THEN [f EXCEPT !.scanpos = ScanResume(m)]
        ELSE [f EXCEPT !.ans_list = Append(@, AnsEntry(f.idx, word)),
                       !.replace_span =
                           Append(@, [start |-> m.start, end |-> m.end,
                                      i |-> f.idx]),
                       !.idx = NextIdx(@),
                       !.scanpos = ScanResume(m)]

\* Lines 40-58: one iteration of the loop over replace_span, or the return.
FrameBuild(f) ==
    IF f.k <= Len(f.replace_span)
    THEN LET span == f.replace_span[f.k]
         IN  [f EXCEPT !.new_text_parts =
                           @ \o Before(f.text, f.pos, span.start)
                             \o <<Placeholder(span.i)>>,
                       !.pos = NextPos(span.start, span.end),
                       !.k = @ + 1]
    ELSE LET parts == f.new_text_parts \o Rest(f.text, f.pos)
         IN  [f EXCEPT !.new_text_parts = parts,
                       !.result = [question |-> Join(parts), ans |-> f.ans_list],
                       !.pc = "done"]

FrameStep(f) ==
    CASE f.pc = "call" -> FrameBegin(f)
      [] f.pc = "scan" -> FrameScan(f)
      [] f.pc = "build" -> FrameBuild(f)
      [] OTHER -> f

RECURSIVE Run(_)
\* The call run to its return.
Run(f) == IF f.pc = "done" THEN f ELSE Run(FrameStep(f))

\* cloze_deletion(text, words)
ClozeDeletion(t, ws) == Run(NewFrame(t, ws)).result

\* The step-by-step call and the function agree.
StepwiseAgrees == pc = "done" => result = ClozeDeletion(text, words)

\* The locals of the call followed step by step, while no such call is made.
ClozeAtRest ==
    /\ text = <<>>
    /\ words = <<>>
    /\ pc = "rest"
    /\ target_set = {}
    /\ ans_list = <<>>
    /\ replace_span = <<>>
    /\ idx = 1
    /\ scanpos = 0
    /\ new_text_parts = <<>>
    /\ pos = 0
    /\ k = 0
    /\ result = NoResult

(***************************************************************************)
(* Several callers: each request builds its own EnglishLearningService and *)
(* EnglishLearning and calls cloze_deletion, one call after the other.     *)
(***************************************************************************)
Callers == {"A", "B"}

MaxCalls == 2

Cat == <<"c", "a", "t">>

Category == <<"c", "a", "t", "e", "g", "o", "r", "y">>

CallInputs ==
    { [text |-> Cat \o <<"'">> \o <<"C", "a", "t">>, words |-> <<Cat>>],
      [text |-> Category \o <<" ">> \o Cat,
       words |-> <<Category, <<"C", "a", "t">> >>],
      [text |-> <<>>, words |-> << <<"C", "A", "T">> >>] }

InitCalls ==
    /\ ClozeAtRest
    /\ calls \in [Callers ->
                    { [frame |-> NewFrame(g.text, g.words), given |-> g, n |-> 1] :
                        g \in CallInputs }]
    /\ files = <<>>
    /\ session = <<>>
    /\ last = <<>>

\* One step of the call of caller c.
CallStep(c) ==
    /\ calls[c].frame.pc # "done"
    /\ calls' = [calls EXCEPT ![c].frame = FrameStep(@)]
    /\ UNCHANGED <<clozeVars, files, session, last>>

\* Caller c calls again: what the locals held is left where it was, for the
\* new call to overwrite.
CallAgain(c) ==
    /\ calls[c].frame.pc = "done"
    /\ calls[c].n < MaxCalls
    /\ \E g \in CallInputs :
           calls' = [calls EXCEPT
                        ![c] = [frame |-> [calls[c].frame EXCEPT
                                              !.text = g.text,
                                              !.words = g.words,
                                              !.pc = "call"],
                                given |-> g,
                                n |-> calls[c].n + 1]]
    /\ UNCHANGED <<clozeVars, files, session, last>>

NextCalls == \E c \in Callers : CallStep(c) \/ CallAgain(c)

SpecCalls == InitCalls /\ [][NextCalls]_vars

(***************************************************************************)
(* C11.  Pure and stateless.                                               *)
(***************************************************************************)
\* What caller c holds is what its call would hold had it run alone.
AsAlone(c) ==
    LET e == calls[c]
    IN  /\ e.frame.text = e.given.text
        /\ e.frame.words = e.given.words
        /\ e.frame.pc = "done" =>
               /\ e.frame.result = ClozeDeletion(e.given.text, e.given.words)
               /\ AnsIdxs(e.frame.result.ans)
                      = [j \in 1..Len(e.frame.result.ans) |-> j]

\* C11: in every interleaving of the calls of several callers each call
\* returns what it returns when run alone, text and words are left as given,
\* a step of one call changes nothing of another call, and nothing of a call
\* survives into the caller's next call (idx starts at 1 again).
C11_PureAndStateless ==
    /\ [](\A c \in Callers : AsAlone(c))
    /\ [][\A c, d \in Callers :
             (c # d /\ calls'[c] # calls[c]) => calls'[d] = calls[d]]_vars

\* Caller A has returned from its second call with two answers while the
\* second call of caller B is under way.
C11_Witness ==
    /\ calls["A"].n = 2
    /\ calls["A"].frame.pc = "done"
    /\ Len(calls["A"].frame.result.ans) = 2
    /\ calls["B"].n = 2
    /\ calls["B"].frame.pc = "scan"
    /\ Len(calls["B"].frame.ans_list) = 1

(***************************************************************************)
(* The same call on texts and word lists with apostrophes and hyphens.     *)
(***************************************************************************)
PunctPieces ==
    { Cat, <<"C", "a", "t">>, <<"t">>, <<"'">>, <<"-">>, <<" ">>, <<"2">> }

PunctTexts ==
    UNION { { Join(f) : f \in [1..n -> PunctPieces] } : n \in 0..MaxPieces }

PunctWordLists ==
    { << Cat \o <<"'", "t">> >>,
      << Cat \o <<"-">> \o Cat, Cat \o <<"'", "t">> >>,
      << Cat \o <<"'", "t">>, <<"T">> >>,
      << Cat, <<"t">> >>,
      << <<"t">>, <<"t", "-">> \o Cat >> }

InitPunct ==
    /\ text \in PunctTexts
    /\ words \in PunctWordLists
    /\ pc = "call"
    /\ target_set = {}
    /\ ans_list = <<>>
    /\ replace_span = <<>>
    /\ idx = 1
    /\ scanpos = 0
    /\ new_text_parts = <<>>
    /\ pos = 0
    /\ k = 0
    /\ result = NoResult
    /\ OthersAtRest

SpecPunct == InitPunct /\ [][Next]_vars

(***************************************************************************)
(* C12.  Apostrophes and hyphens.                                          *)
(***************************************************************************)
Punctuation == {"'", "-"}

HasPunctuation(s) == \E i \in 1..Len(s) : s[i] \in Punctuation

\* The lower-cased entries of the word list that are letters only.
PlainLoweredWords ==
    {LowerStr(words[j]) : j \in {i \in 1..Len(words) : ~HasPunctuation(words[i])}}

\* The span touches an apostrophe or hyphen of the text.
NextToPunctuation(s, span) ==
    \/ span[1] > 0 /\ s[span[1]] \in Punctuation
    \/ span[2] < Len(s) /\ s[span[2] + 1] \in Punctuation

\* C12: an entry of the word list with an apostrophe or hyphen in it never
\* produces a match, and in a word of the text such as cat't or cat-cat the
\* run of letters on either side of the apostrophe or hyphen is a token of
\* its own, replaced exactly when its lower-case form is in the word set.
C12_ApostropheAndHyphenSplit ==
    Done =>
        /\ \A j \in 1..Len(result.ans) :
               /\ ~HasPunctuation(result.ans[j].word)
               /\ LowerStr(result.ans[j].word) \in PlainLoweredWords
        /\ \A span \in WordRuns(text) :
               NextToPunctuation(text, span) =>
                   (span \in Replaced
                       <=> LowerStr(Slice(text, span)) \in LoweredWords)

\* cat't with the word list [cat't, T]: only the t is a blank.
C12_Witness ==
    /\ Done
    /\ text = Cat \o <<"'", "t">>
    /\ words = << Cat \o <<"'", "t">>, <<"T">> >>
    /\ result.question = Cat \o <<"'">> \o Placeholder(1)
    /\ result.ans = <<[idx |-> 1, word |-> <<"t">>]>>

(***************************************************************************)
(* The web application (src/app.py) and the service it calls               *)
(* (src/english_learning_service.py).  A handler is one step.  files holds *)
(* the data files, session the Flask session of each client and last the   *)
(* response most recently returned to each client: the page its browser    *)
(* shows.                                                                  *)
(***************************************************************************)
Sessions == {"A", "B"}

\* A path that does not exist, and a file with its content.  json tells
\* whether json.load can read the content back.
NoFile == [exists |-> FALSE, json |-> FALSE, data |-> <<>>]

JsonFile(d) == [exists |-> TRUE, json |-> TRUE, data |-> d]

TextFile(d) == [exists |-> TRUE, json |-> FALSE, data |-> d]

\* What Agent.chat_with_prompt(prompt, parse_json=False) returns: None, or
\* the content of the reply.
NoReply == [ok |-> FALSE, content |-> <<>>]

Reply(content) == [ok |-> TRUE, content |-> content]

Toy == <<"t", "o", "y">>

\* A character that json.loads produces from the escape \ud800 and that the
\* utf-8 codec refuses to encode.
LoneSurrogate == "U+D800"

Encodable(s) == LoneSurrogate \notin Range(s)

\* generate_prompt_of_cloze_test: None for an empty word list.
PromptOfClozeTest(word_list) ==
    IF word_list = <<>> THEN NoReply ELSE Reply(Join(word_list))

\* chat_with_prompt: None for an empty prompt, else what the model answers.
ChatWithPrompt(prompt, reply) == IF ~prompt.ok THEN NoReply ELSE reply

\* _save_db(data, write_path) for a dict: open(write_path, "w") empties the
\* file, json.dump writes it piece by piece, and the piece that cannot be
\* encoded raises after the pieces before it were written: the file is left
\* with the opening brace and the first key.  strings are the strings of
\* data, old is what the path held before.
SaveDb(data, strings, old) ==
    IF \A s \in strings : Encodable(s)
    THEN [raised |-> FALSE, file |-> JsonFile(data)]
    ELSE [raised |-> TRUE, file |-> TextFile(<<"{", "question">>)]

\* The strings of a cloze result.
StringsOf(res) == {res.question} \cup {res.ans[j].word : j \in 1..Len(res.ans)}

\* generate_cloze_test(word_list, CEFR, output_path): what it returns and
\* what output_path holds afterwards.  has_path is output_path is not None,
\* old is what the path held before.
GenerateClozeTest(word_list, reply, has_path, old) ==
    LET prompt == PromptOfClozeTest(word_list)
        original_text == ChatWithPrompt(prompt, reply)
        res == ClozeDeletion(original_text.content, word_list)
        saved == SaveDb(res, StringsOf(res), old)
    IN  IF word_list = <<>> THEN [ret |-> "None", file |-> old]
        ELSE IF ~prompt.ok THEN [ret |-> "None", file |-> old]
        ELSE IF ~original_text.ok \/ original_text.content = <<>>
             THEN [ret |-> "None", file |-> old]
        ELSE IF ~has_path THEN [ret |-> "False", file |-> old]
        ELSE IF saved.raised THEN [ret |-> "None", file |-> saved.file]
        ELSE [ret |-> "True", file |-> saved.file]

(***************************************************************************)
(* The cloze test pages: cloze_select, cloze_play, submit_cloze.           *)
(***************************************************************************)
\* A request that was not made yet; the fields of a request and its response.
\* cloze_data is what the handler read from data/cloze/cloze.json or had
\* generated into it, success what generate_cloze_test returned to it.
NoResponse ==
    [handler |-> "none", status |-> 0, stage |-> "none", error |-> FALSE,
     success |-> "not called", form |-> <<>>, cloze_data |-> NoResult,
     cloze_text |-> <<>>, selected_words |-> <<>>, used_words |-> {},
     locked_words |-> {}, result |-> <<>>]

\* An exception that leaves the handler: Flask answers 500.
ServerError(handler, form) ==
    [NoResponse EXCEPT !.handler = handler, !.status = 500, !.form = form]

Readable(file) == file.exists /\ file.json

\* [{"word": w} for w in selected_words]
InputData(selected_words) ==
    [j \in 1..Len(selected_words) |-> [word |-> selected_words[j]]]

\* The form of cloze_select: one field words for each selected word.
WordsForm(selected_words) ==
    [j \in 1..Len(selected_words) |->
        [key |-> <<"words">>, value |-> selected_words[j]]]

\* cloze_select, lines 365-398.
ClozeSelectResponse(fs, selected_words, gen) ==
    IF Len(selected_words) < 2
    THEN IF Readable(fs.words)
         THEN [NoResponse EXCEPT !.handler = "cloze_select", !.status = 200,
                                 !.stage = "select", !.error = TRUE,
                                 !.form = WordsForm(selected_words)]
         ELSE ServerError("cloze_select", WordsForm(selected_words))
    ELSE IF gen.ret # "True"
         THEN [ServerError("cloze_select", WordsForm(selected_words))
                  EXCEPT !.success = gen.ret]
         ELSE [NoResponse EXCEPT !.handler = "cloze_select", !.status = 302,
                                 !.stage = "/cloze_play", !.success = gen.ret,
                                 !.form = WordsForm(selected_words),
                                 !.cloze_data = gen.file.data]

ClozeSelectFiles_WriteAnyway(fs, selected_words, gen) ==
    [fs EXCEPT !.input = JsonFile(InputData(selected_words)),
               !.cloze = gen.file]

ClozeSelectFiles(fs, selected_words, gen) ==
    IF Len(selected_words) < 2 THEN fs
    ELSE [fs EXCEPT !.input = JsonFile(InputData(selected_words)),
                    !.cloze = gen.file]

ClozeSelect(s, selected_words, reply) ==
    LET gen == GenerateClozeTest(selected_words, reply, TRUE, files.cloze)
    IN  /\ files' = ClozeSelectFiles(files, selected_words, gen)
        /\ last' = [last EXCEPT
                       ![s] = ClozeSelectResponse(files, selected_words, gen)]
        /\ UNCHANGED <<clozeVars, calls, session>>

\* An <input> element of the page.
InputElement(group, value, readonly, class) ==
    [tag |-> "input", text |-> <<>>, name |-> <<"blank_">> \o group,
     value |-> value, readonly |-> readonly, class |-> class]

TextPart(s) ==
    [tag |-> "text", text |-> s, name |-> <<>>, value |-> <<>>,
     readonly |-> FALSE, class |-> "none"]

\* match.group(1) of the placeholder that starts at offset p: the digits.
PlaceholderGroup(s, p) == SubSeq(s, p + 5, PlaceholderEnd(s, p) - 4)

\* replace_blank of cloze_play, lines 413-415.
ReplaceBlankPlay(group) == InputElement(group, <<>>, FALSE, "plain")

\* replace_blank of submit_cloze, lines 463-474.
ReplaceBlankSubmit(group, res) ==
    IF group \notin DOMAIN res
    THEN InputElement(group, <<>>, FALSE, "plain")
    ELSE IF res[group].is_correct
         THEN InputElement(group, res[group].user, TRUE, "cloze-input correct")
         ELSE InputElement(group, res[group].user, FALSE, "cloze-input error")

RECURSIVE Sub(_, _, _, _, _)
\* re.sub(r'___\[(\d+)\]___', replace_blank, text) from offset p on, the text
\* since offset from not yet put out: the parts of the page.
Sub(s, p, from, graded, res) ==
    IF p >= Len(s)
    THEN IF from < Len(s) THEN <<TextPart(SubSeq(s, from + 1, Len(s)))>>
         ELSE <<>>
    ELSE IF PlaceholderEnd(s, p) # -1
         THEN (IF from < p THEN <<TextPart(SubSeq(s, from + 1, p))>> ELSE <<>>)
              \o << IF graded
                    THEN ReplaceBlankSubmit(PlaceholderGroup(s, p), res)
                    ELSE ReplaceBlankPlay(PlaceholderGroup(s, p)) >>
              \o Sub(s, PlaceholderEnd(s, p), PlaceholderEnd(s, p), graded, res)
         ELSE Sub(s, p + 1, from, graded, res)

\* cloze_play, lines 401-425.
ClozePlay(s) ==
    /\ last' = [last EXCEPT
                   ![s] = IF Readable(files.cloze) /\ Readable(files.input)
                          THEN [NoResponse EXCEPT
                                   !.handler = "cloze_play",
                                   !.status = 200,
                                   !.stage = "play",
                                   !.cloze_data = files.cloze.data,
                                   !.cloze_text =
                                       Sub(files.cloze.data.question, 0, 0,
                                           FALSE, <<>>),
                                   !.selected_words = files.input.data]
                          ELSE ServerError("cloze_play", <<>>)]
    /\ UNCHANGED <<clozeVars, calls, files, session>>

\* The name of the input of blank i.
Blank(i) == <<"blank_">> \o Str(i)

Whitespace == {" "}

RECURSIVE Strip(_)
\* str.strip()
Strip(v) ==
    IF v = <<>> THEN v
    ELSE IF Head(v) \in Whitespace THEN Strip(Tail(v))
    ELSE IF v[Len(v)] \in Whitespace THEN Strip(SubSeq(v, 1, Len(v) - 1))
    ELSE v

\* key.replace('blank_', '')
KeyIdx(key) == SelectSeq(key, LAMBDA t : t # "blank_")

\* request.form.items(): each key once, with its first value, in the order
\* in which the keys first appear.
Items(form) ==
    SelectSeq([j \in 1..Len(form) |-> [at |-> j, key |-> form[j].key,
                                       value |-> form[j].value]],
              LAMBDA e : \A i \in 1..(e.at - 1) : form[i].key # e.key)

\* request.form.getlist(key)
GetList(form, key) ==
    {form[j].value : j \in {i \in 1..Len(form) : form[i].key = key}}

\* {str(item["idx"]): item["word"] for item in cloze_data["ans"]}
Answers(ans) ==
    [g \in {Str(ans[j].idx) : j \in 1..Len(ans)} |->
        ans[Max({j \in 1..Len(ans) : Str(ans[j].idx) = g})].word]

\* answers.get(idx, "")
Get(answers, g) == IF g \in DOMAIN answers THEN answers[g] ELSE <<>>

\* Lines 450-459: the entry of result for one form entry.
Graded_Exact(answers, key, value) ==
    LET user == Strip(value)
        correct == Get(answers, KeyIdx(key))
    IN  [user |-> user, correct |-> correct, is_correct |-> user = correct]

Graded(answers, key, value) ==
    LET user == Strip(value)
        correct == Get(answers, KeyIdx(key))
    IN  [user |-> user, correct |-> correct,
         is_correct |-> LowerStr(user) = LowerStr(correct)]

RECURSIVE ResultOf(_, _)
\* Lines 447-459: result after the loop over the items.
ResultOf(answers, items) ==
    IF items = <<>> THEN <<>>
    ELSE LET prev == ResultOf(answers, SubSeq(items, 1, Len(items) - 1))
             it == items[Len(items)]
         IN  [g \in DOMAIN prev \cup {KeyIdx(it.key)} |->
                 IF g = KeyIdx(it.key)
                 THEN Graded(answers, it.key, it.value)
                 ELSE prev[g]]

\* Lines 445 and 460-461: used_words after the loop.
UsedWords_All(form, res) ==
    GetList(form, <<"used_word">>) \cup {res[g].correct : g \in DOMAIN res}

UsedWords(form, res) ==
    GetList(form, <<"used_word">>)
        \cup {res[g].correct :
                g \in {h \in DOMAIN res :
                         res[h].is_correct /\ res[h].correct # <<>>}}

\* Lines 485-487.
LockedWords(res) ==
    {res[g].correct : g \in {h \in DOMAIN res : res[h].is_correct}}

\* submit_cloze, lines 427-499.
SubmitCloze(s, form) ==
    /\ last' = [last EXCEPT
                   ![s] = IF Readable(files.cloze) /\ Readable(files.input)
                          THEN LET cloze_data == files.cloze.data
                                   res == ResultOf(Answers(cloze_data.ans),
                                                   Items(form))
                               IN  [NoResponse EXCEPT
                                       !.handler = "submit_cloze",
                                       !.status = 200,
                                       !.stage = "play",
                                       !.form = form,
                                       !.cloze_data = cloze_data,
                                       !.cloze_text =
                                           Sub(cloze_data.question, 0, 0,
                                               TRUE, res),
                                       !.selected_words = files.input.data,
                                       !.used_words = UsedWords(form, res),
                                       !.locked_words = LockedWords(res),
                                       !.result = res]
                          ELSE ServerError("submit_cloze", form)]
    /\ UNCHANGED <<clozeVars, calls, files, session>>

(***************************************************************************)
(* The clients of the cloze test.  start_learn has written the vocabulary, *)
(* which is what brings a client to the select stage; no test was          *)
(* generated yet.                                                          *)
(***************************************************************************)
Vocabulary == <<[word |-> Cat], [word |-> Category], [word |-> Toy]>>

InitCloze ==
    /\ ClozeAtRest
    /\ calls = <<>>
    /\ files = [words |-> JsonFile(Vocabulary), input |-> NoFile,
                cloze |-> NoFile]
    /\ session \in [Sessions -> {[cefr |-> "B1"]}]
    /\ last = [s \in Sessions |-> NoResponse]

\* request.form.getlist('words') of cloze_select.
Selections == { <<>>, <<Cat>>, <<Cat, Category>>, <<Cat, Toy>> }

\* What the model answers to the prompt of the cloze test.
Replies ==
    { NoReply,
      Reply(<<"C", "a", "t">> \o <<" ">> \o Category),
      Reply(Toy) }

\* A field of a form, and the forms of at most n of the given fields.
Field(key, value) == [key |-> key, value |-> value]

FormsOf(fields, n) == UNION { [1..m -> fields] : m \in 0..n }

SessionForms == FormsOf({Field(Blank(1), Cat), Field(Blank(1), Toy)}, 1)

NextCloze ==
    \E s \in Sessions :
        \/ \E selected_words \in Selections, reply \in Replies :
               ClozeSelect(s, selected_words, reply)
        \/ ClozePlay(s)
        \/ \E form \in SessionForms : SubmitCloze(s, form)

SpecCloze == InitCloze /\ [][NextCloze]_vars

(***************************************************************************)
(* One client and what it can put into the form of submit_cloze.           *)
(***************************************************************************)
MaxFields == 2

\* The fields a client can send: blanks of the test with right, wrong,
\* padded and empty values, a blank the test does not have, the words dragged
\* from the word bank, and a field with a name of the client's own.
FormFields ==
    { Field(Blank(1), Cat),
      Field(Blank(1), <<" ", "C", "a", "t", " ">>),
      Field(Blank(1), <<>>),
      Field(Blank(2), Toy),
      Field(Blank(2), <<" ">>),
      Field(Blank(7), <<>>),
      Field(<<"used_word">>, Cat),
      Field(<<"used_word">>, <<>>),
      Field(<<"1">>, Toy) }

Forms == FormsOf(FormFields, MaxFields)

SubmitReplies ==
    { Reply(<<"C", "a", "t">> \o <<" ">> \o Cat),
      Reply(Toy \o <<" ">> \o Cat) }

NextSubmit ==
    \/ \E reply \in SubmitReplies : ClozeSelect("A", <<Cat, Toy>>, reply)
    \/ ClozePlay("A")
    \/ \E form \in Forms : SubmitCloze("A", form)

SpecSubmit == InitCloze /\ [][NextSubmit]_vars

(***************************************************************************)
(* C13.  Grading.                                                          *)
(***************************************************************************)
\* The clients whose page is the answer of submit_cloze to a form.
Submitted == {s \in Sessions : /\ last[s].handler = "submit_cloze"
                               /\ last[s].status = 200}

\* The value, trimmed and lower-cased, is the lower-cased word.
ValueMatches(value, word) == LowerStr(Strip(value)) = LowerStr(word)

\* The blanks i of the form whose idx is in the stored ans list, each with
\* the value submitted for it.
SubmittedBlanks(s) ==
    LET items == Items(last[s].form)
        ans == last[s].cloze_data.ans
    IN  { <<ans[j], items[n].value>> :
            <<j, n>> \in {p \in (1..Len(ans)) \X (1..Len(items)) :
                            items[p[2]].key = Blank(ans[p[1]].idx)} }

ItemsFor(form, g) ==
    SelectSeq(Items(form), LAMBDA e : KeyIdx(e.key) = g)

Unanswered(form, g) ==
    \A n \in 1..Len(form) :
        KeyIdx(form[n].key) = g => Strip(form[n].value) = <<>>

\* The entries of res marked correct, the one of g left out.
CorrectWithout(res, g) ==
    {res[h].correct : h \in {i \in DOMAIN res \ {g} : res[i].is_correct}}

\* The inputs of the page for idx g.
InputsFor(page, g) ==
    {n \in 1..Len(page.cloze_text) :
        /\ page.cloze_text[n].tag = "input"
        /\ page.cloze_text[n].name = <<"blank_">> \o g}

Inputs(page) ==
    {n \in 1..Len(page.cloze_text) : page.cloze_text[n].tag = "input"}

\* C15: cloze_select reports success (and sends the client on to the play
\* stage) only for a generated test that has a blank, and cloze_play never
\* shows a question without blanks.
C15_ZeroMatchesDetected ==
    \A s \in Sessions :
        /\ (last[s].handler = "cloze_select" /\ last[s].success = "True")
               => last[s].cloze_data.ans # <<>>
        /\ (last[s].handler = "cloze_play" /\ last[s].status = 200)
               => (last[s].cloze_data.ans # <<>> /\ Inputs(last[s]) # {})

(***************************************************************************)
(* C16.  Two clients.                                                      *)
(***************************************************************************)
\* C16: whatever the other client does in between, the page cloze_play
\* shows to a client that had a test generated is the test generated for
\* that client, and a form submitted from a page of the test is graded
\* against the answers of the test that page shows.
C16_SessionsIsolated ==
    [][\A s \in Sessions :
          /\ (/\ last[s].handler = "cloze_select"
              /\ last[s].success = "True"
              /\ last'[s].handler = "cloze_play")
                 => (/\ last'[s].status = 200
                     /\ last'[s].cloze_data = last[s].cloze_data)
          /\ (/\ last[s].handler \in {"cloze_play", "submit_cloze"}
              /\ last[s].status = 200
              /\ last'[s].handler = "submit_cloze")
                 => (/\ last'[s].status = 200
                     /\ last'[s].cloze_data = last[s].cloze_data)]_vars

(***************************************************************************)
(* Calls of generate_cloze_test, one after the other, with and without an  *)
(* output path; last is the call made last and what it returned.           *)
(***************************************************************************)
GenWordLists == { <<>>, <<Cat>>, <<Cat, Category>>, <<Cat, Toy>> }

GenReplies ==
    { NoReply,
      Reply(<<>>),
      Reply(<<"C", "a", "t">> \o <<" ">> \o Category),
      Reply(Toy),
      Reply(Cat \o <<" ", LoneSurrogate>>) }

NoCall ==
    [word_list |-> <<>>, reply |-> NoReply, has_path |-> FALSE,
     ret |-> "not called", before |-> NoFile]

InitGen ==
    /\ ClozeAtRest
    /\ calls = <<>>
    /\ files = [out |-> NoFile]
    /\ session = <<>>
    /\ last = NoCall

CallGenerateClozeTest(word_list, reply, has_path) ==
    LET gen == GenerateClozeTest(word_list, reply, has_path, files.out)
    IN  /\ files' = [files EXCEPT !.out = gen.file]
        /\ last' = [word_list |-> word_list, reply |-> reply,
                    has_path |-> has_path, ret |-> gen.ret,
                    before |-> files.out]
        /\ UNCHANGED <<clozeVars, calls, session>>

NextGen ==
    \E word_list \in GenWordLists, reply \in GenReplies, has_path \in BOOLEAN :
        CallGenerateClozeTest(word_list, reply, has_path)

SpecGen == InitGen /\ [][NextGen]_vars

(***************************************************************************)
(* C17.  The three outcomes of generate_cloze_test.                        *)
(***************************************************************************)
\* C17: a call returns None, False or True.  None: the word list is empty,
\* the model returned no text, or an exception occurred, and output_path is
\* as it was.  False: the result was built and there is no output_path;
\* nothing is written.  True: output_path holds the result of cloze_deletion
\* on the model's text.
C17_ThreeOutcomes ==
    last.ret # "not called" =>
        /\ last.ret \in {"None", "False", "True"}
        /\ last.ret = "None" => files.out = last.before
        /\ last.ret = "False" =>
               /\ ~last.has_path
               /\ last.word_list # <<>>
               /\ last.reply.ok /\ last.reply.content # <<>>
               /\ files.out = last.before
        /\ last.ret = "True" =>
               /\ last.has_path
               /\ last.word_list # <<>>
               /\ last.reply.ok /\ last.reply.content # <<>>
               /\ files.out = JsonFile(ClozeDeletion(last.reply.content,
                                                     last.word_list))
        /\ (last.word_list = <<>> \/ ~last.reply.ok
               \/ last.reply.content = <<>>) => last.ret = "None"

(***************************************************************************)
(* The hangman game: hangman and hangman_hint, and the hint the service    *)
(* writes to data/hangman/describe.txt.                                    *)
(***************************************************************************)
\* str(None)
NoneText == <<"N", "o", "n", "e">>

\* generate_prompt_of_describe_word: None for an empty word.
PromptOfDescribeWord(word) ==
    IF word = <<>> THEN NoReply ELSE Reply(word)

\* _save_db(data, write_path) for what is neither dict nor list:
\* open(write_path, "w") empties the file and f.write(str(data)) writes it,
\* or raises when it cannot be encoded.
SaveDbText(resp, old) ==
    LET data == IF resp.ok THEN resp.content ELSE NoneText
    IN  IF Encodable(data)
        THEN [raised |-> FALSE, file |-> TextFile(data)]
        ELSE [raised |-> TRUE, file |-> TextFile(<<>>)]

\* generate_hangman_hint(word, CEFR, output_path): what it returns and what
\* output_path holds afterwards.
GenerateHangmanHint(word, reply, has_path, old) ==
    LET prompt == PromptOfDescribeWord(word)
        resp == ChatWithPrompt(prompt, reply)
        saved == SaveDbText(resp, old)
    IN  IF word = <<>> THEN [ret |-> "None", file |-> old]
        ELSE IF ~prompt.ok THEN [ret |-> "None", file |-> old]
        ELSE IF ~has_path THEN [ret |-> "False", file |-> old]
        ELSE IF saved.raised THEN [ret |-> "None", file |-> saved.file]
        ELSE [ret |-> "True", file |-> saved.file]

\* A session in which no game was started: session.get gives the defaults.
NoGame ==
    [hangman_answer |-> <<>>, hangman_guessed |-> <<>>, hangman_wrong |-> 0,
     hangman_hint_used |-> FALSE]

\* A request that was not made yet; the fields of a request to the game and
\* of its response.  reply is what the model answered, ret what
\* generate_hangman_hint returned, before and after what the hint file held.
NoHangmanResponse ==
    [handler |-> "none", masked |-> <<>>, wrong |-> 0, lose |-> FALSE,
     error |-> "none", hint |-> <<>>, reply |-> NoReply,
     ret |-> "not called", before |-> NoFile, after |-> NoFile,
     letter |-> <<>>, guessed |-> <<>>, win |-> FALSE, answer |-> <<>>]

InitHangman ==
    /\ ClozeAtRest
    /\ calls = <<>>
    /\ files = [words |-> JsonFile(Vocabulary), hint |-> NoFile]
    /\ session = [s \in Sessions |-> NoGame]
    /\ last = [s \in Sessions |-> NoHangmanResponse]

\* " ".join("_" for _ in answer)
Masked(answer) ==
    [n \in 1..(2 * Len(answer) - 1) |-> IF n % 2 = 1 THEN "_" ELSE " "]

\* What the model answers to the prompt of the hint.
HintReplies ==
    { NoReply,
      Reply(<<"a", " ", "p", "e", "t">>),
      Reply(<<"f", "u", "n">>),
      Reply(<<"p", "e", "t", LoneSurrogate>>) }

\* hangman, lines 503-536; entry is what random.choice picks.
Hangman(s, entry, reply) ==
    LET answer == LowerStr(entry.word)
        gen == GenerateHangmanHint(answer, reply, TRUE, files.hint)
    IN  /\ session' = [session EXCEPT ![s] =
                          [hangman_answer |-> answer,
                           hangman_guessed |-> <<>>,
                           hangman_wrong |-> 0,
                           hangman_hint_used |-> FALSE]]
        /\ files' = [files EXCEPT !.hint = gen.file]
        /\ last' = [last EXCEPT ![s] =
                       [NoHangmanResponse EXCEPT
                           !.handler = "hangman",
                           !.masked = Masked(answer),
                           !.reply = reply,
                           !.ret = gen.ret,
                           !.before = files.hint,
                           !.after = gen.file]]
        /\ UNCHANGED <<clozeVars, calls>>

\* wrong >= 6
Lose(wrong) == wrong >= 6

\* hangman_hint, lines 575-607.
HangmanHint(s) ==
    IF session[s].hangman_hint_used
    THEN /\ last' = [last EXCEPT ![s] =
                        [NoHangmanResponse EXCEPT
                            !.handler = "hangman_hint",
                            !.error = "hint_used",
                            !.wrong = session[s].hangman_wrong]]
         /\ UNCHANGED <<clozeVars, calls, files, session>>
    ELSE LET wrong == session[s].hangman_wrong + 1
         IN  /\ session' = [session EXCEPT ![s].hangman_hint_used = TRUE,
                                           ![s].hangman_wrong = wrong]
             /\ last' = [last EXCEPT ![s] =
                            IF ~files.hint.exists
                            THEN [NoHangmanResponse EXCEPT
                                     !.handler = "hangman_hint",
                                     !.error = "hint_not_ready",
                                     !.wrong = wrong]
                            ELSE [NoHangmanResponse EXCEPT
                                     !.handler = "hangman_hint",
                                     !.hint = files.hint.data,
                                     !.wrong = wrong,
                                     !.lose = Lose(wrong)]]
             /\ UNCHANGED <<clozeVars, calls, files>>

NextHangman ==
    \E s \in Sessions :
        \/ \E n \in 1..Len(Vocabulary), reply \in HintReplies :
               Hangman(s, Vocabulary[n], reply)
        \/ HangmanHint(s)

SpecHangman == InitHangman /\ [][NextHangman]_vars

(***************************************************************************)
(* C18.  A hint the model did not give.                                    *)
(***************************************************************************)
\* The texts the model gave.
ModelHints == {r.content : r \in {h \in HintReplies : h.ok}}

\* C18: when chat_with_prompt returns None, generate_hangman_hint returns
\* None and leaves the hint file as it was, and the hint hangman_hint serves
\* is a text the model gave.
C18_NoHintWithoutReply ==
    \A s \in Sessions :
        /\ (last[s].handler = "hangman" /\ ~last[s].reply.ok)
               => (last[s].ret = "None" /\ last[s].after = last[s].before)
        /\ (last[s].handler = "hangman_hint" /\ last[s].error = "none")
               => last[s].hint \in ModelHints

(***************************************************************************)
(* C19.  Fewer than two selected words.                                    *)
(***************************************************************************)
\* The last request of client s was a cloze_select with fewer than two
\* words.
TooFewSelected(s) ==
    last[s].handler = "cloze_select" /\ Len(last[s].form) < 2

\* C19: cloze_select with fewer than two selected words answers with the
\* select stage and an error, does not call generate_cloze_test, and leaves
\* data/cloze/input.json and data/cloze/cloze.json as they were.
C19_TooFewWordsRejected ==
    /\ [](\A s \in Sessions :
            TooFewSelected(s) =>
                /\ last[s].status = 200
                /\ last[s].stage = "select"
                /\ last[s].error
                /\ last[s].success = "not called")
    /\ [][\A s \in Sessions :
             (last'[s] # last[s] /\ TooFewSelected(s)')
                 => (/\ files'.input = files.input
                     /\ files'.cloze = files.cloze)]_vars

\* A test was generated from cat and category; client B then selects one
\* word only and the files still hold that test.
C19_Witness ==
    /\ TooFewSelected("B")
    /\ last["B"].form = WordsForm(<<Cat>>)
    /\ last["B"].error
    /\ files.input = JsonFile(InputData(<<Cat, Category>>))
    /\ Readable(files.cloze)
    /\ Len(files.cloze.data.ans) = 2

(***************************************************************************)
(* Mind map and reading quiz of the article a client is reading:           *)
(* news_detail, generate_mindmap_route, generate_reading_route.            *)
(***************************************************************************)
\* data/news/<category>.json: the crawler numbers the articles of each
\* category from 1.
Articles ==
    { [category |-> "world", id |-> 1, content |-> Cat],
      [category |-> "world", id |-> 2, content |-> Toy],
      [category |-> "sport", id |-> 1, content |-> Category] }

ArticleIds == {1, 2}

\* A session without an article and without markers: session.get gives
\* None, which is written 0 for an id.
NoArticle ==
    [current_article_category |-> "none", current_article_id |-> 0,
     current_article_text |-> <<>>, mindmap_article_id |-> 0,
     reading_article_id |-> 0]

\* What chat_with_prompt(prompt, parse_json=True) returns: None, a dict or
\* a list.
JsonReplies == {NoReply, Reply("dict"), Reply("list")}

\* generate_mind_map / generate_reading_quiz (type is the type the reply
\* must have): what it returns and what output_path holds afterwards.  What
\* is written is the model's answer to the prompt built from article_text.
GenerateFromArticle(type, article_text, reply, has_path, old) ==
    LET prompt == IF article_text = <<>> THEN NoReply ELSE Reply(article_text)
        resp == ChatWithPrompt(prompt, reply)
        data == [type |-> type, article |-> article_text]
        saved == SaveDb(data, {article_text}, old)
    IN  IF article_text = <<>> \/ Strip(article_text) = <<>>
        THEN [ret |-> "None", file |-> old]
        ELSE IF ~prompt.ok THEN [ret |-> "None", file |-> old]
        ELSE IF ~resp.ok THEN [ret |-> "None", file |-> old]
        ELSE IF resp.content # type THEN [ret |-> "None", file |-> old]
        ELSE IF ~has_path THEN [ret |-> "False", file |-> old]
        ELSE IF saved.raised THEN [ret |-> "None", file |-> saved.file]
        ELSE [ret |-> "True", file |-> saved.file]

GenerateMindMap(article_text, reply, has_path, old) ==
    GenerateFromArticle("dict", article_text, reply, has_path, old)

GenerateReadingQuiz(article_text, reply, has_path, old) ==
    GenerateFromArticle("list", article_text, reply, has_path, old)

InitCache ==
    /\ ClozeAtRest
    /\ calls = <<>>
    /\ files = [mindMap |-> NoFile, reading |-> NoFile]
    /\ session = [s \in Sessions |-> NoArticle]
    /\ last = [s \in Sessions |-> [handler |-> "none", to |-> "none"]]

\* news_detail, lines 60-85.
NewsDetail(s, category, article_id) ==
    LET found == {a \in Articles : a.category = category /\ a.id = article_id}
    IN  IF found = {}
        THEN /\ last' = [last EXCEPT ![s] = [handler |-> "news_detail",
                                             to |-> "404"]]
             /\ UNCHANGED <<clozeVars, calls, files, session>>
        ELSE LET article == CHOOSE a \in found : TRUE
             IN  /\ session' = [session EXCEPT
                                   ![s].current_article_category = category,
                                   ![s].current_article_id = article_id,
                                   ![s].current_article_text = article.content]
                 /\ last' = [last EXCEPT ![s] = [handler |-> "news_detail",
                                                 to |-> "news_detail.html"]]
                 /\ UNCHANGED <<clozeVars, calls, files>>

\* Lines 94-107 and 141-154: where the request ends before anything is
\* generated; "generate" when it does not.
BeforeGenerate(sess, marker, file, page) ==
    IF sess.current_article_category = "none" THEN "index"
    ELSE IF sess.current_article_id = 0 \/ sess.current_article_text = <<>>
         THEN "news_list"
    ELSE IF marker = sess.current_article_id /\ file.exists THEN page
    ELSE "generate"

\* Lines 109-115 and 156-162: the marker after the request.
MarkerAfter(early, marker, sess, ret) ==
    IF early = "generate" THEN sess.current_article_id ELSE marker

\* generate_mindmap_route, lines 89-121.
GenerateMindmapRoute(s, reply) ==
    LET sess == session[s]
        early == BeforeGenerate(sess, sess.mindmap_article_id, files.mindMap,
                                "mindmap")
        gen == GenerateMindMap(sess.current_article_text, reply, TRUE,
                               files.mindMap)
    IN  /\ files' = IF early = "generate"
                    THEN [files EXCEPT !.mindMap = gen.file] ELSE files
        /\ session' = [session EXCEPT ![s].mindmap_article_id =
                          MarkerAfter(early, @, sess, gen.ret)]
        /\ last' = [last EXCEPT ![s] =
                       [handler |-> "generate_mindmap_route",
                        to |-> IF early = "generate" THEN "mindmap"
                               ELSE early]]
        /\ UNCHANGED <<clozeVars, calls>>

\* generate_reading_route, lines 136-162.
GenerateReadingRoute(s, reply) ==
    LET sess == session[s]
        early == BeforeGenerate(sess, sess.reading_article_id, files.reading,
                                "reading")
        gen == GenerateReadingQuiz(sess.current_article_text, reply, TRUE,
                                   files.reading)
    IN  /\ files' = IF early = "generate"
                    THEN [files EXCEPT !.reading = gen.file] ELSE files
        /\ session' = [session EXCEPT ![s].reading_article_id =
                          MarkerAfter(early, @, sess, gen.ret)]
        /\ last' = [last EXCEPT ![s] =
                       [handler |-> "generate_reading_route",
                        to |-> IF early = "generate" THEN "reading"
                               ELSE early]]
        /\ UNCHANGED <<clozeVars, calls>>

NextCache ==
    \E s \in Sessions :
        \/ \E category \in {"world", "sport"}, article_id \in ArticleIds :
               NewsDetail(s, category, article_id)
        \/ \E reply \in JsonReplies : GenerateMindmapRoute(s, reply)
        \/ \E reply \in JsonReplies : GenerateReadingRoute(s, reply)

SpecCache == InitCache /\ [][NextCache]_vars

(***************************************************************************)
(* C20.  The session markers as a cache key.                               *)
(***************************************************************************)
\* The file holds content of the given type generated from the text.
GeneratedFrom(file, type, article_text) ==
    /\ Readable(file)
    /\ file.data = [type |-> type, article |-> article_text]

\* C20: whenever the mind map marker (the reading marker) of a session is
\* the id of the article the session is reading, data/mindMap.json
\* (data/reading.json) holds content generated from that article.
C20_CacheValid ==
    \A s \in Sessions :
        /\ (/\ session[s].current_article_id # 0
            /\ session[s].mindmap_article_id = session[s].current_article_id)
               => GeneratedFrom(files.mindMap, "dict",
                                session[s].current_article_text)
        /\ (/\ session[s].current_article_id # 0
            /\ session[s].reading_article_id = session[s].current_article_id)
               => GeneratedFrom(files.reading, "list",
                                session[s].current_article_text)

(***************************************************************************)
(* C21.  The word bank and the stored test.                                *)
(***************************************************************************)
\* The words of the stored word bank.
InputWords == [j \in 1..Len(files.input.data) |-> files.input.data[j].word]

\* C21: the stored test is what cloze_deletion makes of a text of the model
\* with the words of the stored word bank, and a cloze_select that fails to
\* generate a test leaves data/cloze/input.json and data/cloze/cloze.json
\* as they were.
C21_WordBankMatchesTest ==
    /\ [](Readable(files.cloze) =>
            /\ Readable(files.input)
            /\ \E reply \in {r \in Replies : r.ok} :
                   files.cloze.data = ClozeDeletion(reply.content, InputWords))
    /\ [][\A s \in Sessions :
             (/\ last'[s] # last[s]
              /\ last'[s].handler = "cloze_select"
              /\ last'[s].status = 500)
                 => (/\ files'.input = files.input
                     /\ files'.cloze = files.cloze)]_vars

(***************************************************************************)
(* C22.  Form fields that are not blanks of the test.                      *)
(***************************************************************************)
\* The words of the stored ans list.
AnsWords(ans) == {ans[j].word : j \in 1..Len(ans)}

\* C22: an entry of result is marked correct only if its idx is an idx of
\* the stored ans list and the value of the field it was made from matches
\* the word of that idx; the locked words are words of the ans list, and so
\* are the used words apart from the used_word fields of the form.
C22_OnlyBlanksMarkedCorrect ==
    \A s \in Submitted :
        LET page == last[s]
            ans == page.cloze_data.ans
            answers == Answers(ans)
        IN  /\ \A g \in DOMAIN page.result :
                   page.result[g].is_correct =>
                       LET its == ItemsFor(page.form, g)
                       IN  /\ g \in DOMAIN answers
                           /\ ValueMatches(its[Len(its)].value, answers[g])
            /\ page.locked_words \subseteq AnsWords(ans)
            /\ page.used_words \subseteq
                   GetList(page.form, <<"used_word">>) \cup AnsWords(ans)

(***************************************************************************)
(* Guesses: hangman_guess_ajax, with hangman and hangman_hint, for one     *)
(* client and a vocabulary of one word.                                    *)
(***************************************************************************)
\* str.isalpha() on one character.
IsAlpha(c) == IsAsciiLetter(c) \/ c \in NonAsciiLetters

\* not letter or len(letter) != 1 or not letter.isalpha()
InvalidLetter(letter) ==
    letter = <<>> \/ Len(letter) # 1 \/ ~IsAlpha(letter[1])

\* " ".join(c if c in guessed else "_" for c in answer)
MaskedWith(answer, guessed) ==
    [n \in 1..(2 * Len(answer) - 1) |->
        IF n % 2 = 0 THEN " "
        ELSE IF answer[(n + 1) \div 2] \in Range(guessed)
             THEN answer[(n + 1) \div 2] ELSE "_"]

\* Lines 551-554: guessed and wrong after a valid letter.
GuessedAfter(guessed, c) ==
    IF c \notin Range(guessed) THEN Append(guessed, c) ELSE guessed

WrongAfter_Always(wrong, guessed, answer, c) ==
    IF c \notin Range(guessed) THEN wrong + 1 ELSE wrong

WrongAfter(wrong, guessed, answer, c) ==
    IF c \notin Range(guessed) /\ c \notin Range(answer) THEN wrong + 1
    ELSE wrong

\* A session has hangman_answer only once hangman has run.
HasGame(sess) == sess.hangman_answer # <<>>

\* hangman_guess_ajax, lines 539-572; sent is data.get("letter", "").
\* Without a game answer is None and "letter not in answer" raises.
HangmanGuessAjax(s, sent) ==
    LET letter == LowerStr(sent)
        answer == session[s].hangman_answer
        guessed == session[s].hangman_guessed
        wrong == session[s].hangman_wrong
    IN  IF InvalidLetter(letter)
        THEN /\ last' = [last EXCEPT ![s] =
                            [NoHangmanResponse EXCEPT
                                !.handler = "hangman_guess_ajax",
                                !.letter = sent,
                                !.error = "invalid input"]]
             /\ UNCHANGED <<clozeVars, calls, files, session>>
        ELSE IF ~HasGame(session[s]) /\ letter[1] \notin Range(guessed)
        THEN /\ last' = [last EXCEPT ![s] =
                            [NoHangmanResponse EXCEPT
                                !.handler = "hangman_guess_ajax",
                                !.letter = sent,
                                !.error = "500"]]
             /\ UNCHANGED <<clozeVars, calls, files, session>>
        ELSE LET guessed2 == GuessedAfter(guessed, letter[1])
                 wrong2 == WrongAfter(wrong, guessed, answer, letter[1])
                 masked == MaskedWith(answer, guessed2)
             IN  /\ session' = [session EXCEPT
                                   ![s].hangman_guessed = guessed2,
                                   ![s].hangman_wrong = wrong2]
                 /\ last' = [last EXCEPT ![s] =
                                [NoHangmanResponse EXCEPT
                                    !.handler = "hangman_guess_ajax",
                                    !.letter = sent,
                                    !.masked = masked,
                                    !.guessed = guessed2,
                                    !.wrong = wrong2,
                                    !.win = "_" \notin Range(masked),
                                    !.lose = Lose(wrong2),
                                    !.answer = IF Lose(wrong2) THEN answer
                                               ELSE <<>>]]
                 /\ UNCHANGED <<clozeVars, calls, files>>

\* data/vocabulary/words.json with the one word A.
GuessVocabulary == <<[word |-> <<"A">>]>>

InitGuess ==
    /\ ClozeAtRest
    /\ calls = <<>>
    /\ files = [words |-> JsonFile(GuessVocabulary), hint |-> NoFile]
    /\ session = [s \in Sessions |-> NoGame]
    /\ last = [s \in Sessions |-> NoHangmanResponse]

\* data.get("letter", ""): letters that are not in the answer, the letter
\* of the answer, an upper-case letter, and what is not a single letter.
SentLetters ==
    { <<"a">>, <<"c">>, <<"C">>, <<"e">>, <<"g">>, <<"o">>, <<"r">>,
      <<"U+00E9">>, <<>>, <<"a", "c">>, <<"2">> }

NextGuess ==
    \/ \E n \in 1..Len(files.words.data) :
           Hangman("A", files.words.data[n], Reply(<<"f", "u", "n">>))
    \/ \E sent \in SentLetters : HangmanGuessAjax("A", sent)
    \/ HangmanHint("A")

SpecGuess == InitGuess /\ [][NextGuess]_vars

(***************************************************************************)
(* C23.  Guess accounting.                                                 *)
(***************************************************************************)
\* This step is a request of client s to hangman_guess_ajax.
GuessStep(s) ==
    last'[s] # last[s] /\ last'[s].handler = "hangman_guess_ajax"

\* What the claim says of the step: the letter sent, lower-cased, is x.
Accounted(s) ==
    LET x == LowerStr(last'[s].letter)
        valid == Len(x) = 1 /\ IsAlpha(x[1])
        old == session[s]
        new == session'[s]
    IN  IF ~valid
        THEN /\ last'[s].error = "invalid input"
             /\ new.hangman_guessed = old.hangman_guessed
             /\ new.hangman_wrong = old.hangman_wrong
        ELSE IF x[1] \in Range(old.hangman_guessed)
        THEN /\ new.hangman_guessed = old.hangman_guessed
             /\ new.hangman_wrong = old.hangman_wrong
        ELSE /\ new.hangman_guessed = Append(old.hangman_guessed, x[1])
             /\ new.hangman_wrong =
                    old.hangman_wrong
                        + (IF x[1] \in Range(old.hangman_answer) THEN 0 ELSE 1)

\* C23: in a session in which hangman has started a game, a valid letter
\* that was guessed before leaves guessed and wrong as they are, a valid new
\* letter is appended to guessed and adds 1 to wrong exactly when it is not
\* in the answer, and what is not a single letter is answered with an error
\* and leaves both as they are; without a game no guess changes the session.
C23_GuessAccounting ==
    [][\A s \in Sessions :
          GuessStep(s) =>
              /\ HasGame(session[s]) => Accounted(s)
              /\ ~HasGame(session[s]) => session'[s] = session[s]]_vars

\* The answer is a; a was guessed, then C: guessed is a, c, one wrong guess,
\* and the word is complete.
C23_Witness ==
    /\ last["A"].handler = "hangman_guess_ajax"
    /\ last["A"].letter = <<"C">>
    /\ last["A"].error = "none"
    /\ session["A"].hangman_answer = <<"a">>
    /\ session["A"].hangman_guessed = <<"a", "c">>
    /\ session["A"].hangman_wrong = 1
    /\ last["A"].win
    /\ ~last["A"].lose

(***************************************************************************)
(* C24.  The end of a game.                                                *)
(***************************************************************************)
\* The game of the session is won: every letter of the answer was guessed.
Won(sess) ==
    HasGame(sess) /\ Range(sess.hangman_answer) \subseteq Range(sess.hangman_guessed)

\* C24: no response reports win and lose together, the wrong counter of a
\* session and of a response never exceeds 6, and a guess in a game that is
\* lost or won changes neither guessed nor wrong.
C24_GameEnds ==
    /\ [](\A s \in Sessions :
            /\ ~(last[s].win /\ last[s].lose)
            /\ session[s].hangman_wrong <= 6
            /\ last[s].wrong <= 6)
    /\ [][\A s \in Sessions :
             (GuessStep(s) /\ (Lose(session[s].hangman_wrong) \/ Won(session[s])))
                 => (/\ session'[s].hangman_guessed = session[s].hangman_guessed
                     /\ session'[s].hangman_wrong = session[s].hangman_wrong)]_vars

====
